---------------------------- MODULE Spec2Model ----------------------------
(***************************************************************************)
(* A model of gocal's expression pipeline: the shunting-yard parser toRPN  *)
(* and the two postfix evaluators evalRPN (float64) and evalRPNMoney       *)
(* (int64 cents).                                                           *)
(*                                                                          *)
(* Strings are kept as tuples of one-character strings, so that the code   *)
(* that inspects a literal byte by byte (parseCents, isNumericLiteral,     *)
(* strconv.ParseFloat) can be modelled on the bytes.                        *)
(***************************************************************************)
EXTENDS Integers, Sequences, FiniteSets, TLC

VARIABLES tokens, i, out, stack, prev, funcParen, argCount, pc, err, mode, result

vars == <<tokens, i, out, stack, prev, funcParen, argCount, pc, err, mode, result>>

---------------------------------------------------------------------------
(* Token types and tokens (math.go:12-28) *)

TNumber == 0
TOp == 1
TFunc == 2
TComma == 3
TLParen == 4
TRParen == 5

NEG == <<"N", "E", "G">>
POS == <<"P", "O", "S">>
PLUS == <<"+">>
MINUS == <<"-">>
STAR == <<"*">>
SLASH == <<"/">>
PERCENT == <<"%">>
CARET == <<"^">>

Last(s) == s[Len(s)]
Front(s) == SubSeq(s, 1, Len(s) - 1)

---------------------------------------------------------------------------
(* precedence and associativity (math.go:157-176) *)

precedence(op) ==
    CASE op = NEG -> 4
      [] op = POS -> 4
      [] op = CARET -> 3
      [] op \in {STAR, SLASH, PERCENT} -> 2
      [] op \in {PLUS, MINUS} -> 1
      [] OTHER -> 0

rightAssociative(op) == op = CARET \/ op = NEG \/ op = POS

---------------------------------------------------------------------------
(* Error messages of toRPN (math.go:194-306) *)

ErrNone == "nil"
ErrFuncNotCalled == "function must be called with parentheses"
ErrComma == "comma must appear inside function arguments"
ErrParens == "mismatched parentheses"
ErrMissingName == "function call missing name"
ErrFuncNoParens == "function call missing parentheses"

---------------------------------------------------------------------------
(* toRPN, one action per case of the switch on t.Typ (math.go:178-312) *)

\* case TComma, lines 209-218: pop operators to out until a left paren is on top
RECURSIVE CommaPop(_, _)
CommaPop(st, o) ==
    IF Len(st) = 0 THEN [found |-> FALSE, stack |-> st, out |-> o]
    ELSE IF Last(st).Typ = TLParen THEN [found |-> TRUE, stack |-> st, out |-> o]
    ELSE CommaPop(Front(st), Append(o, Last(st)))

\* case TRParen, lines 225-234: pop operators to out until a left paren is popped
RECURSIVE RParenPop(_, _)
RParenPop(st, o) ==
    IF Len(st) = 0 THEN [found |-> FALSE, stack |-> st, out |-> o]
    ELSE IF Last(st).Typ = TLParen THEN [found |-> TRUE, stack |-> Front(st), out |-> o]
    ELSE RParenPop(Front(st), Append(o, Last(st)))

\* a faulty variant of ShouldPop: ^ treated as left-associative
ShouldPopLeftAssoc(t, top) ==
    precedence(t.Text) <= precedence(top.Text)

\* a faulty variant of ShouldPop: unary markers given the precedence of binary + and -
ShouldPopUnaryLow(t, top) ==
    LET p(op) == IF op \in {NEG, POS} THEN 1 ELSE precedence(op)
    IN  \/ rightAssociative(t.Text) /\ p(t.Text) < p(top.Text)
        \/ ~rightAssociative(t.Text) /\ p(t.Text) <= p(top.Text)

\* case TOp, lines 278-282: whether the operator on top of the stack is emitted first
ShouldPop(t, top) ==
    LET p1 == precedence(t.Text)
        p2 == precedence(top.Text)
    IN  \/ rightAssociative(t.Text) /\ p1 < p2
        \/ ~rightAssociative(t.Text) /\ p1 <= p2

\* case TOp, lines 272-288
RECURSIVE OpPop(_, _, _)
OpPop(t, st, o) ==
    IF Len(st) = 0 THEN [stack |-> st, out |-> o]
    ELSE IF Last(st).Typ # TOp THEN [stack |-> st, out |-> o]
    ELSE IF ShouldPop(t, Last(st)) THEN OpPop(t, Front(st), Append(o, Last(st)))
    ELSE [stack |-> st, out |-> o]

\* math.go:263: a + or - is unary at the start and after an operator, "(" or ","
IsUnary(op, pv) ==
    /\ op \in {MINUS, PLUS}
    /\ (pv = 0 \/ tokens[pv].Typ = TOp \/ tokens[pv].Typ = TLParen \/ tokens[pv].Typ = TComma)

Fail(msg) ==
    /\ err' = msg
    /\ pc' = "done"

InLoop == pc = "loop" /\ i <= Len(tokens)

Advance ==
    /\ prev' = i
    /\ i' = i + 1
    /\ pc' = "loop"
    /\ err' = err

StepNumber ==
    /\ InLoop
    /\ tokens[i].Typ = TNumber
    /\ out' = Append(out, tokens[i])
    /\ Advance
    /\ UNCHANGED <<tokens, stack, funcParen, argCount, mode, result>>

StepFunc ==
    /\ InLoop
    /\ tokens[i].Typ = TFunc
    /\ IF i + 1 > Len(tokens) \/ tokens[i + 1].Typ # TLParen
       THEN /\ Fail(ErrFuncNotCalled)
            /\ UNCHANGED <<i, prev, stack>>
       ELSE /\ stack' = Append(stack, tokens[i])
            /\ Advance
    /\ UNCHANGED <<tokens, out, funcParen, argCount, mode, result>>

\* a faulty variant of StepLParen: only the parenthesis of a call opens a context
StepLParenCallOnly ==
    /\ InLoop
    /\ tokens[i].Typ = TLParen
    /\ stack' = Append(stack, tokens[i])
    /\ IF prev # 0 /\ tokens[prev].Typ = TFunc
       THEN /\ funcParen' = Append(funcParen, TRUE)
            /\ argCount' = Append(argCount, 0)
       ELSE UNCHANGED <<funcParen, argCount>>
    /\ Advance
    /\ UNCHANGED <<tokens, out, mode, result>>

\* case TLParen, lines 198-206
StepLParen ==
    /\ InLoop
    /\ tokens[i].Typ = TLParen
    /\ stack' = Append(stack, tokens[i])
    /\ funcParen' = Append(funcParen, prev # 0 /\ tokens[prev].Typ = TFunc)
    /\ argCount' = Append(argCount, 0)
    /\ Advance
    /\ UNCHANGED <<tokens, out, mode, result>>

\* a faulty variant of StepComma: a comma is accepted inside any parenthesis
StepCommaAnyParen ==
    /\ InLoop
    /\ tokens[i].Typ = TComma
    /\ LET r == CommaPop(stack, out)
       IN  /\ stack' = r.stack
           /\ out' = r.out
           /\ IF ~r.found \/ Len(funcParen) = 0
              THEN /\ Fail(ErrComma)
                   /\ UNCHANGED <<i, prev, argCount>>
              ELSE /\ argCount' = [argCount EXCEPT ![Len(argCount)] = @ + 1]
                   /\ Advance
    /\ UNCHANGED <<tokens, funcParen, mode, result>>

\* case TComma, lines 208-222
StepComma ==
    /\ InLoop
    /\ tokens[i].Typ = TComma
    /\ LET r == CommaPop(stack, out)
       IN  /\ stack' = r.stack
           /\ out' = r.out
           /\ IF ~r.found \/ Len(funcParen) = 0 \/ ~Last(funcParen)
              THEN /\ Fail(ErrComma)
                   /\ UNCHANGED <<i, prev, argCount>>
              ELSE /\ argCount' = [argCount EXCEPT ![Len(argCount)] = @ + 1]
                   /\ Advance
    /\ UNCHANGED <<tokens, funcParen, mode, result>>

\* a faulty variant of CallArity: every call counts its commas plus one, an empty call too
CallArityNoEmpty(argc, pv) == argc + 1

\* case TRParen, lines 247-251
CallArity(argc, pv) ==
    IF pv # 0 /\ tokens[pv].Typ = TLParen THEN 0 ELSE argc + 1

StepRParen ==
    /\ InLoop
    /\ tokens[i].Typ = TRParen
    /\ LET r == RParenPop(stack, out)
       IN  IF ~r.found \/ Len(funcParen) = 0
           THEN /\ stack' = r.stack
                /\ out' = r.out
                /\ Fail(ErrParens)
                /\ UNCHANGED <<i, prev, funcParen, argCount>>
           ELSE LET isFuncCall == Last(funcParen)
                    argc == CallArity(Last(argCount), prev)
                IN  /\ funcParen' = Front(funcParen)
                    /\ argCount' = Front(argCount)
                    /\ IF ~isFuncCall
                       THEN /\ stack' = r.stack
                            /\ out' = r.out
                            /\ Advance
                       ELSE IF Len(r.stack) = 0 \/ Last(r.stack).Typ # TFunc
                       THEN /\ stack' = r.stack
                            /\ out' = r.out
                            /\ Fail(ErrMissingName)
                            /\ UNCHANGED <<i, prev>>
                       ELSE /\ stack' = Front(r.stack)
                            /\ out' = Append(r.out, [Last(r.stack) EXCEPT !.Arity = argc])
                            /\ Advance
    /\ UNCHANGED <<tokens, mode, result>>

StepOp ==
    /\ InLoop
    /\ tokens[i].Typ = TOp
    /\ LET op == tokens[i].Text
           t == IF IsUnary(op, prev)
                THEN [tokens[i] EXCEPT !.Text = IF op = MINUS THEN NEG ELSE POS]
                ELSE tokens[i]
           r == OpPop(t, stack, out)
       IN  /\ stack' = Append(r.stack, t)
           /\ out' = r.out
    /\ Advance
    /\ UNCHANGED <<tokens, funcParen, argCount, mode, result>>

\* a faulty variant of DrainStack: a parenthesis left on the stack is dropped
RECURSIVE DrainStackDropParens(_, _)
DrainStackDropParens(st, o) ==
    IF Len(st) = 0 THEN [err |-> ErrNone, stack |-> st, out |-> o]
    ELSE IF Last(st).Typ \in {TLParen, TRParen} THEN DrainStackDropParens(Front(st), o)
    ELSE IF Last(st).Typ = TFunc
         THEN [err |-> ErrFuncNoParens, stack |-> Front(st), out |-> o]
    ELSE DrainStackDropParens(Front(st), Append(o, Last(st)))

\* lines 299-309: the final drain of the operator stack
RECURSIVE DrainStack(_, _)
DrainStack(st, o) ==
    IF Len(st) = 0 THEN [err |-> ErrNone, stack |-> st, out |-> o]
    ELSE IF Last(st).Typ \in {TLParen, TRParen}
         THEN [err |-> ErrParens, stack |-> Front(st), out |-> o]
    ELSE IF Last(st).Typ = TFunc
         THEN [err |-> ErrFuncNoParens, stack |-> Front(st), out |-> o]
    ELSE DrainStack(Front(st), Append(o, Last(st)))

Drain ==
    /\ pc = "loop"
    /\ i > Len(tokens)
    /\ LET r == DrainStack(stack, out)
       IN  /\ stack' = r.stack
           /\ out' = r.out
           /\ err' = r.err
           /\ pc' = IF r.err = ErrNone THEN "parsed" ELSE "done"
    /\ UNCHANGED <<tokens, i, prev, funcParen, argCount, mode, result>>

---------------------------------------------------------------------------
(* float64 values.  A value is an exact rational n/d in lowest terms (d > 0) *)
(* whose numerator and denominator stay below FloatExactMax, or Other: a     *)
(* float64 this model does not compute (an infinity, a NaN, the result of a  *)
(* transcendental function, a value outside the exact range).  The rounding  *)
(* of float64 arithmetic is not modelled.                                    *)

FloatExactMax == 536870912

Abs(x) == IF x < 0 THEN -x ELSE x

RECURSIVE GCD(_, _)
GCD(a, b) == IF b = 0 THEN a ELSE GCD(b, a % b)

Other == [k |-> "other", n |-> 0, d |-> 0]

IsRat(v) == v.k = "rat"

\* n/d with d # 0, reduced; Other when outside the exact range
Rat(n, d) ==
    LET g == GCD(Abs(n), Abs(d))
        s == IF d < 0 THEN -1 ELSE 1
    IN  IF Abs(n) \div g > FloatExactMax \/ Abs(d) \div g > FloatExactMax
        THEN Other
        ELSE [k |-> "rat", n |-> s * (n \div g), d |-> Abs(d) \div g]

\* whether x * y can be computed exactly
Fits(x, y) == x = 0 \/ y = 0 \/ Abs(x) <= FloatExactMax \div Abs(y)

FNeg(a) == IF IsRat(a) THEN [a EXCEPT !.n = -a.n] ELSE Other

FAdd(a, b) ==
    IF ~IsRat(a) \/ ~IsRat(b) THEN Other
    ELSE IF Fits(a.n, b.d) /\ Fits(b.n, a.d) /\ Fits(a.d, b.d)
    THEN Rat(a.n * b.d + b.n * a.d, a.d * b.d)
    ELSE Other

FSub(a, b) == FAdd(a, FNeg(b))

FMul(a, b) ==
    IF ~IsRat(a) \/ ~IsRat(b) THEN Other
    ELSE LET g1 == GCD(Abs(a.n), b.d)
             g2 == GCD(Abs(b.n), a.d)
             an == a.n \div g1
             bd == b.d \div g1
             bn == b.n \div g2
             ad == a.d \div g2
         IN  IF Fits(an, bn) /\ Fits(ad, bd) THEN Rat(an * bn, ad * bd) ELSE Other

\* a / b: IEEE-754 gives an infinity or a NaN for b = 0
FDiv(a, b) ==
    IF ~IsRat(a) \/ ~IsRat(b) THEN Other
    ELSE IF b.n = 0 THEN Other
    ELSE FMul(a, Rat(b.d, b.n))

FLess(a, b) == a.n * b.d < b.n * a.d

FCanCompare(a, b) == IsRat(a) /\ IsRat(b) /\ Fits(a.n, b.d) /\ Fits(b.n, a.d)

RECURSIVE FPowNat(_, _)
FPowNat(a, e) ==
    IF e = 0 THEN Rat(1, 1)
    ELSE IF ~IsRat(a) THEN Other
    ELSE LET h == FPowNat(FMul(a, a), e \div 2)
         IN  IF e % 2 = 1 THEN FMul(a, h) ELSE h

\* math.Pow(a, b), exact for an integer exponent
FPow(a, b) ==
    IF IsRat(b) /\ b.n = 0 THEN Rat(1, 1)
    ELSE IF IsRat(a) /\ a.n = 1 /\ a.d = 1 THEN Rat(1, 1)
    ELSE IF ~IsRat(a) \/ ~IsRat(b) THEN Other
    ELSE IF b.d # 1 THEN Other
    ELSE IF b.n > 0 THEN FPowNat(a, b.n)
    ELSE IF a.n = 0 THEN Other
    ELSE FPowNat(Rat(a.d, a.n), -b.n)

FFloor(a) == IF IsRat(a) THEN Rat(a.n \div a.d, 1) ELSE Other

FCeil(a) == IF IsRat(a) THEN Rat(-((-a.n) \div a.d), 1) ELSE Other

\* math.Round: halves away from zero
FRound(a) ==
    IF ~IsRat(a) THEN Other
    ELSE IF a.n >= 0 THEN Rat((2 * a.n + a.d) \div (2 * a.d), 1)
    ELSE Rat(-((2 * (-a.n) + a.d) \div (2 * a.d)), 1)

FAbs(a) == IF IsRat(a) THEN [a EXCEPT !.n = Abs(a.n)] ELSE Other

---------------------------------------------------------------------------
(* Function names, as tokenize lower-cases them (math.go:70-74) *)

FnSin == <<"s", "i", "n">>
FnAbs == <<"a", "b", "s">>
FnFloor == <<"f", "l", "o", "o", "r">>
FnCeil == <<"c", "e", "i", "l">>
FnRound == <<"r", "o", "u", "n", "d">>
FnMin == <<"m", "i", "n">>
FnMax == <<"m", "a", "x">>
FnPow == <<"p", "o", "w">>
FnAtan2 == <<"a", "t", "a", "n", "2">>
FnLogn == <<"l", "o", "g", "n">>

Arity1Funcs ==
    {FnSin, <<"c", "o", "s">>, <<"t", "a", "n">>, <<"a", "s", "i", "n">>, <<"a", "c", "o", "s">>,
     <<"a", "t", "a", "n">>, <<"s", "q", "r", "t">>, FnAbs, <<"l", "n">>, <<"l", "o", "g">>,
     <<"e", "x", "p">>, FnFloor, FnCeil, FnRound}

---------------------------------------------------------------------------
(* evalRPN (math.go:314-494) *)

EvNotEnough == "not enough operands"
EvExpects1 == "function expects 1 argument"
EvExpects2Plus == "function expects at least 2 arguments"
EvExpects2 == "function expects 2 arguments"
EvUnknownFunc == "unknown function"
EvUnknownOp == "unknown operator"
EvUnexpected == "unexpected token in RPN"
EvExtra == "expression error: extra values"

Ok(v) == [ok |-> TRUE, val |-> v, err |-> ErrNone]
Bad(msg) == [ok |-> FALSE, val |-> 0, err |-> msg]

\* lines 355-385: the one-argument functions
Apply1(name, a) ==
    CASE name = FnAbs -> FAbs(a)
      [] name = FnFloor -> FFloor(a)
      [] name = FnCeil -> FCeil(a)
      [] name = FnRound -> FRound(a)
      [] OTHER -> Other

\* lines 396-407: res := args[0], then the fold over args[1:]
RECURSIVE FoldMinMax(_, _, _, _)
FoldMinMax(name, args, k, res) ==
    IF k > Len(args) THEN res
    ELSE IF ~FCanCompare(args[k], res) THEN Other
    ELSE IF name = FnMin
    THEN FoldMinMax(name, args, k + 1, IF FLess(args[k], res) THEN args[k] ELSE res)
    ELSE FoldMinMax(name, args, k + 1, IF FLess(res, args[k]) THEN args[k] ELSE res)

\* a faulty variant of FloatBinary: % as the remainder of a divided by b
FloatBinaryRemainder(op, a, b) ==
    CASE op = PLUS -> FAdd(a, b)
      [] op = MINUS -> FSub(a, b)
      [] op = STAR -> FMul(a, b)
      [] op = SLASH -> FDiv(a, b)
      [] op = PERCENT ->
            IF IsRat(a) /\ IsRat(b) /\ b.n # 0 /\ a.n >= 0 /\ b.n > 0
            THEN LET q == FFloor(FDiv(a, b)) IN FSub(a, FMul(q, b))
            ELSE Other
      [] op = CARET -> FPow(a, b)

\* math.go:464-478: a is the earlier operand, b the top of the stack
FloatBinary(op, a, b) ==
    CASE op = PLUS -> FAdd(a, b)
      [] op = MINUS -> FSub(a, b)
      [] op = STAR -> FMul(a, b)
      [] op = SLASH -> FDiv(a, b)
      [] op = PERCENT -> FDiv(FMul(a, b), Rat(100, 1))
      [] op = CARET -> FPow(a, b)

\* a faulty variant of MinMaxArityOk: a call with one argument is accepted
MinMaxArityOkOne(arity) == arity >= 1

\* line 389 (and money: line 117 of the money evaluator)
MinMaxArityOk(arity) == arity >= 2

\* lines 345-436: one Function token applied to the stack st
EvalFunc(t, st) ==
    LET n == Len(st)
    IN  IF t.Text \in Arity1Funcs
        THEN IF t.Arity # 1 THEN Bad(EvExpects1)
             ELSE IF n < 1 THEN Bad(EvNotEnough)
             ELSE Ok(Append(Front(st), Apply1(t.Text, st[n])))
        ELSE IF t.Text \in {FnMin, FnMax}
        THEN IF ~MinMaxArityOk(t.Arity) THEN Bad(EvExpects2Plus)
             ELSE IF n < t.Arity THEN Bad(EvNotEnough)
             ELSE LET args == SubSeq(st, n - t.Arity + 1, n)
                  IN  Ok(Append(SubSeq(st, 1, n - t.Arity),
                                FoldMinMax(t.Text, args, 2, args[1])))
        ELSE IF t.Text \in {FnPow, FnAtan2, FnLogn}
        THEN IF t.Arity # 2 THEN Bad(EvExpects2)
             ELSE IF n < 2 THEN Bad(EvNotEnough)
             ELSE Ok(Append(SubSeq(st, 1, n - 2),
                            IF t.Text = FnPow THEN FPow(st[n - 1], st[n]) ELSE Other))
        ELSE Bad(EvUnknownFunc)

\* lines 438-483: one Operator token applied to the stack st
EvalOp(t, st) ==
    LET n == Len(st)
    IN  IF t.Text = NEG
        THEN IF n < 1 THEN Bad(EvNotEnough) ELSE Ok(Append(Front(st), FNeg(st[n])))
        ELSE IF t.Text = POS
        THEN IF n < 1 THEN Bad(EvNotEnough) ELSE Ok(st)
        ELSE IF t.Text \in {PLUS, MINUS, STAR, SLASH, PERCENT, CARET}
        THEN IF n < 2 THEN Bad(EvNotEnough)
             ELSE Ok(Append(SubSeq(st, 1, n - 2), FloatBinary(t.Text, st[n - 1], st[n])))
        ELSE Bad(EvUnknownOp)

\* lines 340-493: the pass over rpn from index k with stack st
RECURSIVE EvalFrom(_, _, _)
EvalFrom(rpn, k, st) ==
    IF k > Len(rpn)
    THEN IF Len(st) # 1 THEN Bad(EvExtra) ELSE Ok(st[1])
    ELSE LET t == rpn[k]
             r == CASE t.Typ = TNumber -> Ok(Append(st, t.Value))
                    [] t.Typ = TFunc -> EvalFunc(t, st)
                    [] t.Typ = TOp -> EvalOp(t, st)
                    [] OTHER -> Bad(EvUnexpected)
         IN  IF r.ok THEN EvalFrom(rpn, k + 1, r.val) ELSE r

evalRPN(rpn) == EvalFrom(rpn, 1, <<>>)

---------------------------------------------------------------------------
(* int64 and uint64.  The code's integers are 64 bits wide; the model keeps  *)
(* every one of them at IntBits bits (two's complement), because the model   *)
(* checker's own integers are 32 bits wide.  MaxInt64, MinInt64 and the      *)
(* uint64 modulus are all derived from IntBits, so the overflow conditions   *)
(* of the code are the same conditions at the narrower width.                *)

IntBits == 28

MaxInt64 == 2^(IntBits - 1) - 1
MinInt64 == -(2^(IntBits - 1))
Uint64Mod == 2^IntBits

moneyScale == 100
percentScale == 10000

\* two's-complement wraparound of an int64 result
Wrap64(x) == ((x - MinInt64) % Uint64Mod) + MinInt64

\* Go's / and % on int64: truncated toward zero; MinInt64 / -1 wraps
GoDiv(n, d) ==
    IF n = MinInt64 /\ d = -1 THEN MinInt64
    ELSE IF (n < 0) = (d < 0) THEN Abs(n) \div Abs(d) ELSE -(Abs(n) \div Abs(d))

GoMod(n, d) ==
    IF n = MinInt64 /\ d = -1 THEN 0
    ELSE IF n < 0 THEN -(Abs(n) % Abs(d)) ELSE Abs(n) % Abs(d)

MnNotEnough == "not enough operands"
MnNonNumeric == "non-numeric literal not supported in money expressions"
MnExpects1 == "function expects 1 argument"
MnExpects2Plus == "function expects at least 2 arguments"
MnUnsupportedFunc == "function not supported in money expressions"
MnUnsupportedOp == "operator not supported in money expressions"
MnUnexpected == "unexpected token in RPN"
MnExtra == "expression error: extra values"
MnAbsOverflow == "overflow while computing abs"
MnNegOverflow == "overflow while negating value"
MnAddOverflow == "overflow while adding values"
MnSubOverflow == "overflow while subtracting values"
MnMulOverflow == "overflow while multiplying values"
MnDivZero == "division by zero"
MnEmpty == "empty number"
MnExponent == "exponent notation not supported in money expressions"
MnInvalid == "invalid money number"
MnPlaces == "too many decimal places"
MnRange == "invalid money number: value out of range"
MnLiteralOverflow == "money value overflow"

\* addInt64 (money evaluator, lines 301-309)
addInt64(a, b) ==
    IF b > 0 /\ a > MaxInt64 - b THEN Bad(MnAddOverflow)
    ELSE IF b < 0 /\ a < MinInt64 - b THEN Bad(MnAddOverflow)
    ELSE Ok(a + b)

\* subInt64 (lines 311-319)
subInt64(a, b) ==
    IF b > 0 /\ a < MinInt64 + b THEN Bad(MnSubOverflow)
    ELSE IF b < 0 /\ a > MaxInt64 + b THEN Bad(MnSubOverflow)
    ELSE Ok(a - b)

\* absUint64 (lines 369-374): uint64(^v) + 1 for a negative v
absUint64(v) == IF v >= 0 THEN v ELSE (((-v) - 1) + 1) % Uint64Mod

\* bits.Mul64: the double-width product of two uint64 as (hi, lo), computed
\* from half-words so that no intermediate exceeds the word
Mul64(x, y) ==
    LET h == IntBits \div 2
        B == 2^h
        E == 2^(IntBits - 2 * h)
        a1 == x \div B
        a0 == x % B
        b1 == y \div B
        b0 == y % B
        p00 == a0 * b0
        t1 == a1 * b0 + a0 * b1 + (p00 \div B)
        t2 == a1 * b1 + (t1 \div B)
    IN  [hi |-> t2 \div E,
         lo |-> (t2 % E) * B * B + (t1 % B) * B + (p00 % B)]

\* a faulty variant of mulInt64: the high word of the product is not looked at
mulInt64NoHi(a, b) ==
    IF a = 0 \/ b = 0 THEN Ok(0)
    ELSE LET signNegative == (a < 0) # (b < 0)
             m == Mul64(absUint64(a), absUint64(b))
         IN  IF ~signNegative
             THEN IF m.lo > MaxInt64 THEN Bad(MnMulOverflow) ELSE Ok(m.lo)
             ELSE IF m.lo > MaxInt64 + 1 THEN Bad(MnMulOverflow)
             ELSE IF m.lo = MaxInt64 + 1 THEN Ok(MinInt64)
             ELSE Ok(-m.lo)

\* mulInt64 (lines 321-345)
mulInt64(a, b) ==
    IF a = 0 \/ b = 0 THEN Ok(0)
    ELSE LET signNegative == (a < 0) # (b < 0)
             m == Mul64(absUint64(a), absUint64(b))
         IN  IF m.hi # 0 THEN Bad(MnMulOverflow)
             ELSE IF ~signNegative
             THEN IF m.lo > MaxInt64 THEN Bad(MnMulOverflow) ELSE Ok(m.lo)
             ELSE IF m.lo > MaxInt64 + 1 THEN Bad(MnMulOverflow)
             ELSE IF m.lo = MaxInt64 + 1 THEN Ok(MinInt64)
             ELSE Ok(-m.lo)

\* a faulty variant of divRound: the quotient is truncated, never rounded
divRoundTrunc(n, d) ==
    IF d = 0 THEN Bad(MnDivZero) ELSE Ok(GoDiv(n, d))

\* divRound (lines 347-367)
divRound(n, d) ==
    IF d = 0 THEN Bad(MnDivZero)
    ELSE LET q == GoDiv(n, d)
             r == GoMod(n, d)
         IN  IF r = 0 THEN Ok(q)
             ELSE IF (absUint64(r) * 2) % Uint64Mod >= absUint64(d)
             THEN IF (n > 0) = (d > 0) THEN Ok(Wrap64(q + 1)) ELSE Ok(Wrap64(q - 1))
             ELSE Ok(q)

---------------------------------------------------------------------------
(* Literals: the bytes of a number token *)

DigitChars == <<"0", "1", "2", "3", "4", "5", "6", "7", "8", "9">>
Digits == {DigitChars[k] : k \in 1..10}
DigitVal(c) == (CHOOSE k \in 1..10 : DigitChars[k] = c) - 1

ContainsAny(txt, chars) == \E k \in 1..Len(txt) : txt[k] \in chars
Count(txt, c) == Cardinality({k \in 1..Len(txt) : txt[k] = c})
\* 0 when c does not occur in txt
IndexOf(txt, c) ==
    IF \E k \in 1..Len(txt) : txt[k] = c
    THEN CHOOSE k \in 1..Len(txt) : txt[k] = c /\ \A j \in 1..(k - 1) : txt[j] # c
    ELSE 0

\* allDigits (lines 289-299)
allDigits(s) == Len(s) > 0 /\ \A k \in 1..Len(s) : s[k] \in Digits

\* isNumericLiteral (lines 265-287)
isNumericLiteral(txt) ==
    /\ Len(txt) > 0
    /\ ~ContainsAny(txt, {"e", "E"})
    /\ Count(txt, ".") <= 1
    /\ \A k \in 1..Len(txt) : txt[k] = "." \/ txt[k] \in Digits

\* strconv.ParseInt(s, 10, 64) on a string of digits: the value, or a range error
RECURSIVE ParseIntFrom(_, _, _)
ParseIntFrom(s, k, acc) ==
    IF k > Len(s) THEN Ok(acc)
    ELSE IF acc > (MaxInt64 - DigitVal(s[k])) \div 10 THEN Bad(MnRange)
    ELSE ParseIntFrom(s, k + 1, acc * 10 + DigitVal(s[k]))

ParseInt(s) == ParseIntFrom(s, 1, 0)

\* lines 245-247: zeros appended while the fraction has fewer than two digits
RECURSIVE padFrac(_)
padFrac(frac) == IF Len(frac) < 2 THEN padFrac(Append(frac, "0")) ELSE frac

\* parseCents (lines 216-263)
parseCents(txt) ==
    IF txt = <<>> THEN Bad(MnEmpty)
    ELSE IF ContainsAny(txt, {"e", "E"}) THEN Bad(MnExponent)
    ELSE IF Count(txt, ".") > 1 THEN Bad(MnInvalid)
    ELSE LET dot == IndexOf(txt, ".")
             intPart0 == IF dot = 0 THEN txt ELSE SubSeq(txt, 1, dot - 1)
             fracPart0 == IF dot = 0 THEN <<>> ELSE SubSeq(txt, dot + 1, Len(txt))
             intPart == IF intPart0 = <<>> THEN <<"0">> ELSE intPart0
             fracPart == IF fracPart0 = <<>> THEN <<"0">> ELSE fracPart0
         IN  IF ~allDigits(intPart) \/ ~allDigits(fracPart) THEN Bad(MnInvalid)
             ELSE IF Len(fracPart) > 2 THEN Bad(MnPlaces)
             ELSE LET whole == ParseInt(intPart)
                      frac == ParseInt(padFrac(fracPart))
                  IN  IF ~whole.ok THEN whole
                      ELSE IF ~frac.ok THEN frac
                      ELSE LET wholeCents == mulInt64(whole.val, moneyScale)
                           IN  IF ~wholeCents.ok THEN Bad(MnLiteralOverflow)
                               ELSE addInt64(wholeCents.val, frac.val)

---------------------------------------------------------------------------
(* evalRPNMoney (money evaluator, lines 59-214) *)

\* a faulty variant of MoneyBinary: a zero divisor yields zero
MoneyBinaryZeroFirst(op, a, b) ==
    CASE op = PLUS -> addInt64(a, b)
      [] op = MINUS -> subInt64(a, b)
      [] op = STAR ->
            LET prod == mulInt64(a, b)
            IN  IF prod.ok THEN divRound(prod.val, moneyScale) ELSE prod
      [] op = SLASH ->
            LET num == mulInt64(a, moneyScale)
            IN  IF b = 0 THEN Ok(0) ELSE IF num.ok THEN divRound(num.val, b) ELSE num
      [] op = PERCENT ->
            LET prod == mulInt64(a, b)
            IN  IF prod.ok THEN divRound(prod.val, percentScale) ELSE prod

\* lines 171-195: a is the earlier operand, b the top of the stack
MoneyBinary(op, a, b) ==
    CASE op = PLUS -> addInt64(a, b)
      [] op = MINUS -> subInt64(a, b)
      [] op = STAR ->
            LET prod == mulInt64(a, b)
            IN  IF prod.ok THEN divRound(prod.val, moneyScale) ELSE prod
      [] op = SLASH ->
            LET num == mulInt64(a, moneyScale)
            IN  IF num.ok THEN divRound(num.val, b) ELSE num
      [] op = PERCENT ->
            LET prod == mulInt64(a, b)
            IN  IF prod.ok THEN divRound(prod.val, percentScale) ELSE prod

\* lines 124-135: res := args[0], then the fold over args[1:]
RECURSIVE MoneyFold(_, _, _, _)
MoneyFold(name, args, k, res) ==
    IF k > Len(args) THEN res
    ELSE IF name = FnMin
    THEN MoneyFold(name, args, k + 1, IF args[k] < res THEN args[k] ELSE res)
    ELSE MoneyFold(name, args, k + 1, IF args[k] > res THEN args[k] ELSE res)

\* a faulty variant of MoneySupportedFunc: every one-argument function is let through
MoneySupportedFuncAll(name) == name \in Arity1Funcs \cup {FnMin, FnMax}

\* lines 98-139: the functions of the money evaluator's switch
MoneySupportedFunc(name) == name \in {FnAbs, FnMin, FnMax}

\* lines 149-152
MoneyNeg(a) == IF a = MinInt64 THEN Bad(MnNegOverflow) ELSE Ok(-a)

\* lines 97-140: one Function token applied to the stack st
MoneyFunc(t, st) ==
    LET n == Len(st)
    IN  IF ~MoneySupportedFunc(t.Text) THEN Bad(MnUnsupportedFunc)
        ELSE IF t.Text \in {FnMin, FnMax}
        THEN IF ~MinMaxArityOk(t.Arity) THEN Bad(MnExpects2Plus)
             ELSE IF n < t.Arity THEN Bad(MnNotEnough)
             ELSE LET args == SubSeq(st, n - t.Arity + 1, n)
                  IN  Ok(Append(SubSeq(st, 1, n - t.Arity),
                                MoneyFold(t.Text, args, 2, args[1])))
        ELSE IF t.Arity # 1 THEN Bad(MnExpects1)
        ELSE IF n < 1 THEN Bad(MnNotEnough)
        ELSE IF st[n] = MinInt64 THEN Bad(MnAbsOverflow)
        ELSE Ok(Append(Front(st), IF st[n] < 0 THEN -st[n] ELSE st[n]))

\* lines 142-203: one Operator token applied to the stack st
MoneyOp(t, st) ==
    LET n == Len(st)
    IN  IF t.Text = NEG
        THEN IF n < 1 THEN Bad(MnNotEnough)
             ELSE LET r == MoneyNeg(st[n])
                  IN  IF r.ok THEN Ok(Append(Front(st), r.val)) ELSE r
        ELSE IF t.Text = POS
        THEN IF n < 1 THEN Bad(MnNotEnough) ELSE Ok(st)
        ELSE IF t.Text \in {PLUS, MINUS, STAR, SLASH, PERCENT}
        THEN IF n < 2 THEN Bad(MnNotEnough)
             ELSE LET r == MoneyBinary(t.Text, st[n - 1], st[n])
                  IN  IF r.ok THEN Ok(Append(SubSeq(st, 1, n - 2), r.val)) ELSE r
        ELSE Bad(MnUnsupportedOp)

\* lines 87-95: one Number token
MoneyNumber(t, st) ==
    IF ~isNumericLiteral(t.Text) THEN Bad(MnNonNumeric)
    ELSE LET v == parseCents(t.Text)
         IN  IF v.ok THEN Ok(Append(st, v.val)) ELSE v

\* lines 85-213: the pass over rpn from index k with stack st; at is the index
\* of the token the pass returned on (Len(rpn) + 1: after the loop)
RECURSIVE MoneyFrom(_, _, _)
MoneyFrom(rpn, k, st) ==
    IF k > Len(rpn)
    THEN [at |-> k] @@ (IF Len(st) # 1 THEN Bad(MnExtra) ELSE Ok(st[1]))
    ELSE LET t == rpn[k]
             r == CASE t.Typ = TNumber -> MoneyNumber(t, st)
                    [] t.Typ = TFunc -> MoneyFunc(t, st)
                    [] t.Typ = TOp -> MoneyOp(t, st)
                    [] OTHER -> Bad(MnUnexpected)
         IN  IF r.ok THEN MoneyFrom(rpn, k + 1, r.val) ELSE [at |-> k] @@ r

evalRPNMoney(rpn) == MoneyFrom(rpn, 1, <<>>)

---------------------------------------------------------------------------
(* Tokens as tokenize builds them (math.go:30-130) *)

Zero == [k |-> "rat", n |-> 0, d |-> 1]

\* the digits of s as a number, or -1 when it exceeds FloatExactMax
RECURSIVE DigitsValue(_, _, _)
DigitsValue(s, k, acc) ==
    IF k > Len(s) THEN acc
    ELSE IF acc > (FloatExactMax - DigitVal(s[k])) \div 10 THEN -1
    ELSE DigitsValue(s, k + 1, acc * 10 + DigitVal(s[k]))

\* strconv.ParseFloat(txt, 64) on a literal the lexer accepts (lines 84-117):
\* digits with at most one point, then an optional exponent
ParseFloat(txt) ==
    LET epos == IF \E k \in 1..Len(txt) : txt[k] \in {"e", "E"}
                THEN CHOOSE k \in 1..Len(txt) : txt[k] \in {"e", "E"} ELSE 0
        mant == IF epos = 0 THEN txt ELSE SubSeq(txt, 1, epos - 1)
        expo == IF epos = 0 THEN <<>> ELSE SubSeq(txt, epos + 1, Len(txt))
        dot == IndexOf(mant, ".")
        digs == IF dot = 0 THEN mant
                ELSE SubSeq(mant, 1, dot - 1) \o SubSeq(mant, dot + 1, Len(mant))
        places == IF dot = 0 THEN 0 ELSE Len(mant) - dot
        neg == Len(expo) > 0 /\ expo[1] = "-"
        edigs == IF Len(expo) > 0 /\ expo[1] \in {"+", "-"} THEN Tail(expo) ELSE expo
        m == DigitsValue(digs, 1, 0)
        e == DigitsValue(edigs, 1, 0)
    IN  IF m < 0 \/ e < 0 \/ e > 30 THEN Other
        ELSE FMul(Rat(m, 1), FPow(Rat(10, 1), Rat((IF neg THEN -e ELSE e) - places, 1)))

NumTok(txt) == [Typ |-> TNumber, Text |-> txt, Value |-> ParseFloat(txt), Arity |-> 0]
\* a named constant (pi, e): a Number token whose Text is the name (line 72)
ConstTok(name) == [Typ |-> TNumber, Text |-> name, Value |-> Other, Arity |-> 0]
OpTok(txt) == [Typ |-> TOp, Text |-> txt, Value |-> Zero, Arity |-> 0]
FuncTok(name) == [Typ |-> TFunc, Text |-> name, Value |-> Zero, Arity |-> 0]
CommaTok == [Typ |-> TComma, Text |-> <<",">>, Value |-> Zero, Arity |-> 0]
LParenTok == [Typ |-> TLParen, Text |-> <<"(">>, Value |-> Zero, Arity |-> 0]
RParenTok == [Typ |-> TRParen, Text |-> <<")">>, Value |-> Zero, Arity |-> 0]

ConstPi == <<"p", "i">>
ConstE == <<"e">>

---------------------------------------------------------------------------
(* The inputs: token sequences tokenize can return.  Any sequence of valid    *)
(* tokens is the tokenization of some string (tokens separated by blanks).    *)

MaxOpTokens == 7
MaxCallTokens == 10

\* the literals written at the 1st, 2nd, ... number of a generated expression
LeafLits == <<<<"5">>, <<"2">>, <<"7">>, <<"3">>>>


\* the lists of arguments of m tokens, commas included, built from the
\* expressions of table T
RECURSIVE ArgLists(_, _)
ArgLists(T, m) ==
    (IF m >= 1 THEN T[m] ELSE {})
    \cup UNION {{x \o <<CommaTok>> \o rest : x \in T[k], rest \in ArgLists(T, m - 1 - k)} :
                k \in 1..(m - 2)}

\* T[k]: the expressions of exactly k tokens, k in 1..n, over the given
\* function names, binary operators and unary signs
RECURSIVE GenTable(_, _, _, _)
GenTable(n, names, ops, uns) ==
    IF n = 0 THEN <<>>
    ELSE LET T == GenTable(n - 1, names, ops, uns)
             unary == {<<OpTok(u)>> \o x : u \in uns, x \in T[n - 1]}
             binary == UNION {{l \o <<OpTok(o)>> \o r : l \in T[k], r \in T[n - 1 - k], o \in ops} :
                              k \in 1..(n - 2)}
             paren == {<<LParenTok>> \o x \o <<RParenTok>> : x \in T[n - 2]}
             calls == {<<FuncTok(f), LParenTok>> \o a \o <<RParenTok>> :
                       f \in names, a \in IF n = 3 THEN {<<>>} ELSE ArgLists(T, n - 3)}
         IN  Append(T, IF n = 1 THEN {<<NumTok(LeafLits[1])>>}
                       ELSE IF n = 2 THEN unary
                       ELSE unary \cup binary \cup paren \cup calls)

\* the k-th number of ts rewritten to the k-th literal of LeafLits, cyclically
FillLeaves(ts) ==
    [j \in 1..Len(ts) |->
        IF ts[j].Typ = TNumber
        THEN NumTok(LeafLits[((Cardinality({q \in 1..j : ts[q].Typ = TNumber}) - 1)
                               % Len(LeafLits)) + 1])
        ELSE ts[j]]

AllOf(T) == UNION {T[k] : k \in 1..Len(T)}


OpInputs ==
    {FillLeaves(ts) :
        ts \in AllOf(GenTable(MaxOpTokens, {}, {PLUS, MINUS, STAR, SLASH, PERCENT, CARET},
                              {PLUS, MINUS}))}

CallInputs ==
    {FillLeaves(ts) : ts \in AllOf(GenTable(MaxCallTokens, {FnMin, FnMax}, {MINUS}, {MINUS}))}

ExPowTower == <<NumTok(<<"2">>), OpTok(CARET), NumTok(<<"3">>), OpTok(CARET), NumTok(<<"2">>)>>
ExPowNeg == <<NumTok(<<"2">>), OpTok(CARET), OpTok(MINUS), NumTok(<<"3">>)>>
ExPercent5 == <<NumTok(<<"5">>), OpTok(PERCENT), NumTok(<<"2">>)>>
\* (-2.5)^3 + 10%3
ExCubePercent ==
    <<LParenTok, OpTok(MINUS), NumTok(<<"2", ".", "5">>), RParenTok, OpTok(CARET),
      NumTok(<<"3">>), OpTok(PLUS), NumTok(<<"1", "0">>), OpTok(PERCENT), NumTok(<<"3">>)>>
\* min(2, max(3, 4, 1))
ExMinMaxNested ==
    <<FuncTok(FnMin), LParenTok, NumTok(<<"2">>), CommaTok, FuncTok(FnMax), LParenTok,
      NumTok(<<"3">>), CommaTok, NumTok(<<"4">>), CommaTok, NumTok(<<"1">>), RParenTok, RParenTok>>
ExDiv3 == <<NumTok(<<"1", "0">>), OpTok(SLASH), NumTok(<<"3">>)>>
ExSin1 == <<FuncTok(FnSin), LParenTok, NumTok(<<"1">>), RParenTok>>

\* the expressions of the tests and of the documentation, as tokens
Examples ==
    {ExPowTower,
     \* 2+3*4
     <<NumTok(<<"2">>), OpTok(PLUS), NumTok(<<"3">>), OpTok(STAR), NumTok(<<"4">>)>>,
     \* 10-6/3
     <<NumTok(<<"1", "0">>), OpTok(MINUS), NumTok(<<"6">>), OpTok(SLASH), NumTok(<<"3">>)>>,
     \* (-3)+5
     <<LParenTok, OpTok(MINUS), NumTok(<<"3">>), RParenTok, OpTok(PLUS), NumTok(<<"5">>)>>,
     \* 2*-3
     <<NumTok(<<"2">>), OpTok(STAR), OpTok(MINUS), NumTok(<<"3">>)>>,
     \* -(3+4)*2
     <<OpTok(MINUS), LParenTok, NumTok(<<"3">>), OpTok(PLUS), NumTok(<<"4">>), RParenTok,
       OpTok(STAR), NumTok(<<"2">>)>>,
     ExPowNeg,
     \* 12.5*(3-1)/4
     <<NumTok(<<"1", "2", ".", "5">>), OpTok(STAR), LParenTok, NumTok(<<"3">>), OpTok(MINUS),
       NumTok(<<"1">>), RParenTok, OpTok(SLASH), NumTok(<<"4">>)>>,
     ExPercent5,
     \* 7.5%2
     <<NumTok(<<"7", ".", "5">>), OpTok(PERCENT), NumTok(<<"2">>)>>,
     ExCubePercent,
     \* min(5,2,7,3)
     <<FuncTok(FnMin), LParenTok, NumTok(<<"5">>), CommaTok, NumTok(<<"2">>), CommaTok,
       NumTok(<<"7">>), CommaTok, NumTok(<<"3">>), RParenTok>>,
     \* max(5,2,7,3)
     <<FuncTok(FnMax), LParenTok, NumTok(<<"5">>), CommaTok, NumTok(<<"2">>), CommaTok,
       NumTok(<<"7">>), CommaTok, NumTok(<<"3">>), RParenTok>>,
     ExMinMaxNested,
     \* max(10,6%4+2^3)-min(5,3+1)
     <<FuncTok(FnMax), LParenTok, NumTok(<<"1", "0">>), CommaTok, NumTok(<<"6">>),
       OpTok(PERCENT), NumTok(<<"4">>), OpTok(PLUS), NumTok(<<"2">>), OpTok(CARET),
       NumTok(<<"3">>), RParenTok, OpTok(MINUS), FuncTok(FnMin), LParenTok, NumTok(<<"5">>),
       CommaTok, NumTok(<<"3">>), OpTok(PLUS), NumTok(<<"1">>), RParenTok>>,
     \* 1200%10
     <<NumTok(<<"1", "2", "0", "0">>), OpTok(PERCENT), NumTok(<<"1", "0">>)>>,
     ExDiv3,
     \* 1200-10
     <<NumTok(<<"1", "2", "0", "0">>), OpTok(MINUS), NumTok(<<"1", "0">>)>>,
     \* 1200%12.5
     <<NumTok(<<"1", "2", "0", "0">>), OpTok(PERCENT), NumTok(<<"1", "2", ".", "5">>)>>,
     \* (2+3)*4
     <<LParenTok, NumTok(<<"2">>), OpTok(PLUS), NumTok(<<"3">>), RParenTok, OpTok(STAR),
       NumTok(<<"4">>)>>,
     ExSin1,
     \* 1e2
     <<NumTok(<<"1", "e", "2">>)>>,
     \* 1.5e2+2.5e-1
     <<NumTok(<<"1", ".", "5", "e", "2">>), OpTok(PLUS),
       NumTok(<<"2", ".", "5", "e", "-", "1">>)>>,
     \* pi
     <<ConstTok(ConstPi)>>,
     \* e
     <<ConstTok(ConstE)>>,
     \* abs(-3.5)+abs(2.25)
     <<FuncTok(FnAbs), LParenTok, OpTok(MINUS), NumTok(<<"3", ".", "5">>), RParenTok,
       OpTok(PLUS), FuncTok(FnAbs), LParenTok, NumTok(<<"2", ".", "2", "5">>), RParenTok>>,
     \* 1.234
     <<NumTok(<<"1", ".", "2", "3", "4">>)>>,
     \* (2+3)^(1+1)
     <<LParenTok, NumTok(<<"2">>), OpTok(PLUS), NumTok(<<"3">>), RParenTok, OpTok(CARET),
       LParenTok, NumTok(<<"1">>), OpTok(PLUS), NumTok(<<"1">>), RParenTok>>,
     \* 1/0+sin(1)
     <<NumTok(<<"1">>), OpTok(SLASH), NumTok(<<"0">>), OpTok(PLUS), FuncTok(FnSin), LParenTok,
       NumTok(<<"1">>), RParenTok>>,
     \* -2^2
     <<OpTok(MINUS), NumTok(<<"2">>), OpTok(CARET), NumTok(<<"2">>)>>,
     \* min()
     <<FuncTok(FnMin), LParenTok, RParenTok>>,
     \* max(3)
     <<FuncTok(FnMax), LParenTok, NumTok(<<"3">>), RParenTok>>,
     \* min(-5,2,-7)
     <<FuncTok(FnMin), LParenTok, OpTok(MINUS), NumTok(<<"5">>), CommaTok, NumTok(<<"2">>),
       CommaTok, OpTok(MINUS), NumTok(<<"7">>), RParenTok>>,
     \* max(min(1,2),abs(-3),2)
     <<FuncTok(FnMax), LParenTok, FuncTok(FnMin), LParenTok, NumTok(<<"1">>), CommaTok,
       NumTok(<<"2">>), RParenTok, CommaTok, FuncTok(FnAbs), LParenTok, OpTok(MINUS),
       NumTok(<<"3">>), RParenTok, CommaTok, NumTok(<<"2">>), RParenTok>>,
     \* +-2
     <<OpTok(PLUS), OpTok(MINUS), NumTok(<<"2">>)>>,
     \* min(2,-3)
     <<FuncTok(FnMin), LParenTok, NumTok(<<"2">>), CommaTok, OpTok(MINUS), NumTok(<<"3">>),
       RParenTok>>}

\* the decimal digits of a natural number
RECURSIVE NatText(_)
NatText(n) == IF n < 10 THEN <<DigitChars[n + 1]>> ELSE Append(NatText(n \div 10), DigitChars[(n % 10) + 1])

\* a literal for c >= 0 cents, written with as few decimals as it needs
CentsText(c) ==
    LET f == c % 100
    IN  NatText(c \div 100)
        \o (IF f = 0 THEN <<>>
            ELSE IF f % 10 = 0 THEN <<".", DigitChars[(f \div 10) + 1]>>
            ELSE <<".", DigitChars[(f \div 10) + 1], DigitChars[(f % 10) + 1]>>)

\* cent amounts: small ones, the halves of the three rounding steps, the
\* examples of the tests, and the amounts at the edges of int64
MoneyVals ==
    {0, 1, 2, 3, 50, 100, 150, 200, 300, 750, 1000, 120000,
     2^(IntBits \div 2), 2^(IntBits - 1 - (IntBits \div 2)),
     MaxInt64 \div 100, (MaxInt64 \div 100) + 1, MaxInt64 - 1, MaxInt64}

MoneyOps == {PLUS, MINUS, STAR, SLASH, PERCENT}

\* a literal, or a literal under a unary minus
Signed(neg, c) ==
    IF neg THEN <<OpTok(MINUS), NumTok(CentsText(c))>> ELSE <<NumTok(CentsText(c))>>

\* [-]a op [-]b
ArithInputs ==
    {Signed(sa, a) \o <<OpTok(op)>> \o Signed(sb, b) :
        sa \in BOOLEAN, a \in MoneyVals, op \in MoneyOps, sb \in BOOLEAN, b \in MoneyVals}

\* (-MaxInt64 - 0.01): the expression whose value is MinInt64 cents
MinExpr ==
    <<LParenTok, OpTok(MINUS), NumTok(CentsText(MaxInt64)), OpTok(MINUS),
      NumTok(CentsText(1)), RParenTok>>

MinInputs ==
    {MinExpr \o <<OpTok(op)>> \o Signed(sb, b) : op \in MoneyOps, sb \in BOOLEAN, b \in MoneyVals}
    \cup {Signed(sb, b) \o <<OpTok(op)>> \o MinExpr : op \in MoneyOps, sb \in BOOLEAN, b \in MoneyVals}
    \cup {<<OpTok(MINUS)>> \o MinExpr, <<FuncTok(FnAbs)>> \o MinExpr, MinExpr,
          <<FuncTok(FnAbs), LParenTok, OpTok(MINUS)>> \o MinExpr \o <<RParenTok>>}

\* literals around the largest amount, by whole part and decimals
EdgeLiterals ==
    {NatText(w) \o f :
        w \in {MaxInt64 \div 100, (MaxInt64 \div 100) + 1, MaxInt64, MaxInt64 + 1},
        f \in {<<>>, <<".">>, <<".", "0">>, <<".", "9", "9">>,
               <<".", DigitChars[((MaxInt64 % 100) \div 10) + 1], DigitChars[(MaxInt64 % 10) + 1]>>,
               <<".", DigitChars[((MaxInt64 % 100) \div 10) + 1], DigitChars[(MaxInt64 % 10) + 2]>>}}

\* literals the money evaluator must refuse, and their neighbours
OddLiterals ==
    {<<"1", "e", "2">>, <<"1", "E", "2">>, <<"2", ".", "5", "e", "-", "1">>,
     <<"1", ".", "2", "3", "4">>, <<"0", ".", "0", "0", "5">>, <<".", "5">>,
     <<"1", ".">>, <<"1", ".", "5", "0">>, <<"0", "0", "7">>, <<"1", ".", "0", "0", "0">>}

LiteralInputs ==
    {<<NumTok(t)>> : t \in EdgeLiterals \cup OddLiterals}
    \cup {<<NumTok(<<"1">>), OpTok(PLUS), NumTok(t)>> : t \in OddLiterals}
    \cup {<<OpTok(MINUS), NumTok(t)>> : t \in EdgeLiterals}

AllFuncs == Arity1Funcs \cup {FnMin, FnMax, FnPow, FnAtan2, FnLogn}

\* what the money evaluator does not support, alone and after something else
Unsupported ==
    {<<FuncTok(f), LParenTok, NumTok(<<"1">>), RParenTok>> : f \in AllFuncs}
    \cup {<<FuncTok(f), LParenTok, NumTok(<<"8">>), CommaTok, NumTok(<<"2">>), RParenTok>> :
            f \in AllFuncs}
    \cup {<<FuncTok(f), LParenTok, RParenTok>> : f \in AllFuncs}
    \cup {<<NumTok(<<"2">>), OpTok(CARET), NumTok(<<"3">>)>>, <<ConstTok(ConstPi)>>,
          <<ConstTok(ConstE)>>, <<NumTok(<<"1", "e", "2">>)>>,
          <<NumTok(<<"1", ".", "2", "3", "4">>)>>}

UnsupportedInputs ==
    {pre \o u :
        pre \in {<<>>, <<NumTok(<<"1">>), OpTok(PLUS)>>,
                 <<NumTok(<<"1">>), OpTok(SLASH), NumTok(<<"0">>), OpTok(PLUS)>>,
                 <<NumTok(<<"2">>), OpTok(STAR)>>, <<OpTok(MINUS)>>},
        u \in Unsupported}

\* every token sequence of up to MaxAnyTokens tokens over one token of each
\* type, well-formed or not
MaxAnyTokens == 5

AnyInputs ==
    UNION {[1..n -> {NumTok(<<"2">>), OpTok(MINUS), FuncTok(FnMin), CommaTok, LParenTok, RParenTok}] :
           n \in 0..MaxAnyTokens}

\* longer sequences that are not expressions, and their well-formed neighbours
MalformedExamples ==
    {\* 2 3 +
     <<NumTok(<<"2">>), NumTok(<<"3">>), OpTok(PLUS)>>,
     \* 2 min(3,)
     <<NumTok(<<"2">>), FuncTok(FnMin), LParenTok, NumTok(<<"3">>), CommaTok, RParenTok>>,
     \* min((1,2),3)
     <<FuncTok(FnMin), LParenTok, LParenTok, NumTok(<<"1">>), CommaTok, NumTok(<<"2">>),
       RParenTok, CommaTok, NumTok(<<"3">>), RParenTok>>,
     \* min((1),2,3)
     <<FuncTok(FnMin), LParenTok, LParenTok, NumTok(<<"1">>), RParenTok, CommaTok,
       NumTok(<<"2">>), CommaTok, NumTok(<<"3">>), RParenTok>>,
     \* min(1,min(2,3),(4))
     <<FuncTok(FnMin), LParenTok, NumTok(<<"1">>), CommaTok, FuncTok(FnMin), LParenTok,
       NumTok(<<"2">>), CommaTok, NumTok(<<"3">>), RParenTok, CommaTok, LParenTok,
       NumTok(<<"4">>), RParenTok, RParenTok>>,
     \* min(1,(min(2,3),4))
     <<FuncTok(FnMin), LParenTok, NumTok(<<"1">>), CommaTok, LParenTok, FuncTok(FnMin),
       LParenTok, NumTok(<<"2">>), CommaTok, NumTok(<<"3">>), RParenTok, CommaTok,
       NumTok(<<"4">>), RParenTok, RParenTok>>,
     \* (2+3
     <<LParenTok, NumTok(<<"2">>), OpTok(PLUS), NumTok(<<"3">>)>>,
     \* 2+3)
     <<NumTok(<<"2">>), OpTok(PLUS), NumTok(<<"3">>), RParenTok>>,
     \* min(2,3))*(4
     <<FuncTok(FnMin), LParenTok, NumTok(<<"2">>), CommaTok, NumTok(<<"3">>), RParenTok,
       RParenTok, OpTok(STAR), LParenTok, NumTok(<<"4">>)>>,
     \* ((2+3)*(4-1)
     <<LParenTok, LParenTok, NumTok(<<"2">>), OpTok(PLUS), NumTok(<<"3">>), RParenTok,
       OpTok(STAR), LParenTok, NumTok(<<"4">>), OpTok(MINUS), NumTok(<<"1">>), RParenTok>>,
     \* 2,3
     <<NumTok(<<"2">>), CommaTok, NumTok(<<"3">>)>>,
     \* 2 min(3,4)
     <<NumTok(<<"2">>), FuncTok(FnMin), LParenTok, NumTok(<<"3">>), CommaTok, NumTok(<<"4">>),
       RParenTok>>,
     \* min(,3)
     <<FuncTok(FnMin), LParenTok, CommaTok, NumTok(<<"3">>), RParenTok>>,
     \* 1 2 max(3,)
     <<NumTok(<<"1">>), NumTok(<<"2">>), FuncTok(FnMax), LParenTok, NumTok(<<"3">>), CommaTok,
       RParenTok>>}

Inputs ==
    OpInputs \cup CallInputs \cup Examples \cup ArithInputs \cup MinInputs
    \cup LiteralInputs \cup UnsupportedInputs \cup AnyInputs \cup MalformedExamples

---------------------------------------------------------------------------
(* The pipeline: EvalExpression (math.go:496-506) and EvalMoneyExpression    *)
(* (money evaluator, lines 47-57) both run toRPN on the tokens and hand its  *)
(* result to their evaluator.                                                *)

Init ==
    /\ tokens \in Inputs
    /\ i = 1
    /\ out = <<>>
    /\ stack = <<>>
    /\ prev = 0
    /\ funcParen = <<>>
    /\ argCount = <<>>
    /\ pc = "loop"
    /\ err = ErrNone
    /\ mode = "none"
    /\ result = Bad(ErrNone)

\* EvalExpression, line 505
EvalFloat ==
    /\ pc = "parsed"
    /\ mode' = "float"
    /\ result' = evalRPN(out)
    /\ pc' = "done"
    /\ UNCHANGED <<tokens, i, out, stack, prev, funcParen, argCount, err>>

\* EvalMoneyExpression, line 56
EvalMoney ==
    /\ pc = "parsed"
    /\ mode' = "money"
    /\ result' = evalRPNMoney(out)
    /\ pc' = "done"
    /\ UNCHANGED <<tokens, i, out, stack, prev, funcParen, argCount, err>>

Next ==
    \/ StepNumber
    \/ StepFunc
    \/ StepLParen
    \/ StepComma
    \/ StepRParen
    \/ StepOp
    \/ Drain
    \/ EvalFloat
    \/ EvalMoney

Spec == Init /\ [][Next]_vars

---------------------------------------------------------------------------
\* The grammar of expressions, as a recursive-descent parser:
\*     expr    ::= term   { addop term }      addop: + -      left to right
\*     term    ::= power  { mulop power }     mulop: * / %    left to right
\*     power   ::= unary  [ ^ power ]                          right to left
\*     unary   ::= sign unary | primary       sign: + -
\*     primary ::= number | "(" expr ")" | name "(" [ expr { , expr } ] ")"
\* A tree is a number, a unary node, a binary node or a call.

NoParse == [ok |-> FALSE, pos |-> 0, ast |-> <<>>]
Parsed(p, a) == [ok |-> TRUE, pos |-> p, ast |-> a]

NumNode(tok) == [t |-> "num", tok |-> tok]
UnNode(op, x) == [t |-> "un", op |-> op, x |-> x]
BinNode(op, l, r) == [t |-> "bin", op |-> op, l |-> l, r |-> r]
CallNode(name, args) == [t |-> "call", name |-> name, args |-> args]

IsTyp(ts, p, typ) == p <= Len(ts) /\ ts[p].Typ = typ
IsOpIn(ts, p, ops) == p <= Len(ts) /\ ts[p].Typ = TOp /\ ts[p].Text \in ops

RECURSIVE PExpr(_, _), PExprRest(_, _, _), PTerm(_, _), PTermRest(_, _, _)
RECURSIVE PPower(_, _), PUnary(_, _), PPrimary(_, _), PArgs(_, _, _)

PPrimary(ts, p) ==
    IF IsTyp(ts, p, TNumber) THEN Parsed(p + 1, NumNode(ts[p]))
    ELSE IF IsTyp(ts, p, TLParen)
    THEN LET e == PExpr(ts, p + 1)
         IN  IF e.ok /\ IsTyp(ts, e.pos, TRParen) THEN Parsed(e.pos + 1, e.ast) ELSE NoParse
    ELSE IF IsTyp(ts, p, TFunc) /\ IsTyp(ts, p + 1, TLParen)
    THEN IF IsTyp(ts, p + 2, TRParen) THEN Parsed(p + 3, CallNode(ts[p].Text, <<>>))
         ELSE LET a == PArgs(ts, p + 2, <<>>)
              IN  IF a.ok THEN Parsed(a.pos, CallNode(ts[p].Text, a.ast)) ELSE NoParse
    ELSE NoParse

PArgs(ts, p, acc) ==
    LET e == PExpr(ts, p)
    IN  IF ~e.ok THEN NoParse
        ELSE IF IsTyp(ts, e.pos, TComma) THEN PArgs(ts, e.pos + 1, Append(acc, e.ast))
        ELSE IF IsTyp(ts, e.pos, TRParen) THEN Parsed(e.pos + 1, Append(acc, e.ast))
        ELSE NoParse

PUnary(ts, p) ==
    IF IsOpIn(ts, p, {PLUS, MINUS})
    THEN LET x == PUnary(ts, p + 1)
         IN  IF x.ok THEN Parsed(x.pos, UnNode(IF ts[p].Text = MINUS THEN NEG ELSE POS, x.ast))
             ELSE NoParse
    ELSE PPrimary(ts, p)

PPower(ts, p) ==
    LET u == PUnary(ts, p)
    IN  IF u.ok /\ IsOpIn(ts, u.pos, {CARET})
        THEN LET r == PPower(ts, u.pos + 1)
             IN  IF r.ok THEN Parsed(r.pos, BinNode(CARET, u.ast, r.ast)) ELSE NoParse
        ELSE u

PTermRest(ts, p, left) ==
    IF IsOpIn(ts, p, {STAR, SLASH, PERCENT})
    THEN LET r == PPower(ts, p + 1)
         IN  IF r.ok THEN PTermRest(ts, r.pos, BinNode(ts[p].Text, left, r.ast)) ELSE NoParse
    ELSE Parsed(p, left)

PTerm(ts, p) ==
    LET l == PPower(ts, p)
    IN  IF l.ok THEN PTermRest(ts, l.pos, l.ast) ELSE NoParse

PExprRest(ts, p, left) ==
    IF IsOpIn(ts, p, {PLUS, MINUS})
    THEN LET r == PTerm(ts, p + 1)
         IN  IF r.ok THEN PExprRest(ts, r.pos, BinNode(ts[p].Text, left, r.ast)) ELSE NoParse
    ELSE Parsed(p, left)

PExpr(ts, p) ==
    LET l == PTerm(ts, p)
    IN  IF l.ok THEN PExprRest(ts, l.pos, l.ast) ELSE NoParse

\* the parse of the whole of ts
Parse(ts) ==
    LET e == PExpr(ts, 1)
    IN  IF e.ok /\ e.pos = Len(ts) + 1 THEN e ELSE NoParse

RECURSIVE Postfix(_), PostfixAll(_, _)
\* the postfix form of a tree: operands first, in order, then the operator;
\* a call's arguments first, then its name with the number of arguments
Postfix(a) ==
    CASE a.t = "num" -> <<a.tok>>
      [] a.t = "un" -> Append(Postfix(a.x), OpTok(a.op))
      [] a.t = "bin" -> Append(Postfix(a.l) \o Postfix(a.r), OpTok(a.op))
      [] a.t = "call" ->
            Append(PostfixAll(a.args, 1), [FuncTok(a.name) EXCEPT !.Arity = Len(a.args)])

PostfixAll(args, k) ==
    IF k > Len(args) THEN <<>> ELSE Postfix(args[k]) \o PostfixAll(args, k + 1)

RECURSIVE HasNode(_, _)
\* whether the tree has a node of one of the kinds
HasNode(a, kinds) ==
    \/ a.t \in kinds
    \/ a.t = "un" /\ HasNode(a.x, kinds)
    \/ a.t = "bin" /\ (HasNode(a.l, kinds) \/ HasNode(a.r, kinds))
    \/ a.t = "call" /\ \E k \in 1..Len(a.args) : HasNode(a.args[k], kinds)

\* toRPN has returned: with the postfix sequence, or with an error
Returned == pc \in {"parsed", "done"}

---------------------------------------------------------------------------
(* The value of a tree in float mode: "val" with the value, "arity" when the  *)
(* first thing to go wrong, operands and arguments taken left to right, is a  *)
(* min or max of fewer than two arguments, "err" when it is anything else.    *)

FValOf(v) == [k |-> "val", v |-> v]
FArityErr == [k |-> "arity", v |-> Other]
FOtherErr == [k |-> "err", v |-> Other]

\* the least (greatest) of a non-empty sequence of values
LeastOf(vs) ==
    IF \A x \in 1..Len(vs), y \in 1..Len(vs) : FCanCompare(vs[x], vs[y])
    THEN vs[CHOOSE x \in 1..Len(vs) : \A y \in 1..Len(vs) : ~FLess(vs[y], vs[x])]
    ELSE Other

GreatestOf(vs) ==
    IF \A x \in 1..Len(vs), y \in 1..Len(vs) : FCanCompare(vs[x], vs[y])
    THEN vs[CHOOSE x \in 1..Len(vs) : \A y \in 1..Len(vs) : ~FLess(vs[x], vs[y])]
    ELSE Other

RefBinary(op, a, b) ==
    CASE op = PLUS -> FAdd(a, b)
      [] op = MINUS -> FSub(a, b)
      [] op = STAR -> FMul(a, b)
      [] op = SLASH -> FDiv(a, b)
      [] op = PERCENT -> FDiv(FMul(a, b), Rat(100, 1))
      [] op = CARET -> FPow(a, b)

RefCall(name, vs) ==
    IF name \in {FnMin, FnMax}
    THEN IF Len(vs) < 2 THEN FArityErr
         ELSE FValOf(IF name = FnMin THEN LeastOf(vs) ELSE GreatestOf(vs))
    ELSE IF name \in Arity1Funcs
    THEN IF Len(vs) # 1 THEN FOtherErr
         ELSE FValOf(IF name = FnAbs THEN FAbs(vs[1]) ELSE Other)
    ELSE IF name \in {FnPow, FnAtan2, FnLogn}
    THEN IF Len(vs) # 2 THEN FOtherErr
         ELSE FValOf(IF name = FnPow THEN FPow(vs[1], vs[2]) ELSE Other)
    ELSE FOtherErr

RECURSIVE RefFloat(_), RefFloatArgs(_, _, _)
RefFloat(a) ==
    CASE a.t = "num" -> FValOf(a.tok.Value)
      [] a.t = "un" ->
            LET x == RefFloat(a.x)
            IN  IF x.k # "val" THEN x ELSE FValOf(IF a.op = NEG THEN FNeg(x.v) ELSE x.v)
      [] a.t = "bin" ->
            LET l == RefFloat(a.l)
                r == RefFloat(a.r)
            IN  IF l.k # "val" THEN l
                ELSE IF r.k # "val" THEN r
                ELSE FValOf(RefBinary(a.op, l.v, r.v))
      [] a.t = "call" ->
            LET as == RefFloatArgs(a.args, 1, <<>>)
            IN  IF as.k # "val" THEN as ELSE RefCall(a.name, as.v)

RefFloatArgs(args, k, acc) ==
    IF k > Len(args) THEN FValOf(acc)
    ELSE LET x == RefFloat(args[k])
         IN  IF x.k # "val" THEN x ELSE RefFloatArgs(args, k + 1, Append(acc, x.v))

\* the float evaluator returned the value of the tree, where the model computes it
FloatAgrees(a) ==
    LET ref == RefFloat(a)
    IN  ref.k = "val" => result.ok /\ (IsRat(ref.v) => result.val = ref.v)

---------------------------------------------------------------------------
(* C1..C3: toRPN on well-formed expressions *)

\* C1: for a well-formed expression of numbers, parentheses and binary
\* operators, toRPN succeeds and emits the postfix form of its parse under the
\* grammar above (^ over * / % over + -, ^ right to left, the others left to
\* right), and the float evaluator returns the value of that parse, each
\* operator applied with the earlier operand on the left.
C1_BinaryPrecedence ==
    LET p == Parse(tokens)
    IN  (Returned /\ p.ok /\ ~HasNode(p.ast, {"un", "call"}))
        => /\ err = ErrNone
           /\ out = Postfix(p.ast)
           /\ (mode = "float" => FloatAgrees(p.ast))

C1_Witness ==
    /\ tokens = ExPowTower
    /\ mode = "float"
    /\ result.ok
    /\ result.val = Rat(512, 1)
    /\ out = <<NumTok(<<"2">>), NumTok(<<"3">>), NumTok(<<"2">>), OpTok(CARET), OpTok(CARET)>>

\* the operator token StepOp pushed for the token at index k
PushedFor(k) ==
    IF tokens[k].Text \in {PLUS, MINUS}
       /\ (k = 1 \/ tokens[k - 1].Typ \in {TOp, TLParen, TComma})
    THEN OpTok(IF tokens[k].Text = MINUS THEN NEG ELSE POS)
    ELSE tokens[k]

\* C2: toRPN pushes NEG/POS for a + or - exactly when it is the first token or
\* follows an Operator, LeftParen or Comma, and the token unchanged otherwise;
\* for a well-formed expression with a unary sign toRPN emits the postfix form
\* of the parse in which the sign binds tighter than every binary operator, and
\* the float evaluator returns the value of that parse.
C2_UnarySign ==
    /\ (pc = "loop" /\ prev >= 1 /\ tokens[prev].Typ = TOp)
       => (Len(stack) > 0 /\ Last(stack) = PushedFor(prev))
    /\ LET p == Parse(tokens)
       IN  (Returned /\ p.ok /\ HasNode(p.ast, {"un"}))
           => /\ err = ErrNone
              /\ out = Postfix(p.ast)
              /\ (mode = "float" => FloatAgrees(p.ast))

C2_Witness ==
    /\ tokens = ExPowNeg
    /\ mode = "float"
    /\ result.ok
    /\ result.val = Rat(1, 8)
    /\ out = <<NumTok(<<"2">>), NumTok(<<"3">>), OpTok(NEG), OpTok(CARET)>>

\* C3: for a well-formed expression with a call, toRPN succeeds and every
\* Function token of its output stands right after the tokens of its arguments
\* and carries the number of its arguments: 0 for empty parentheses, else one
\* more than the commas directly inside its own parentheses.
C3_CallArity ==
    LET p == Parse(tokens)
    IN  (Returned /\ p.ok /\ HasNode(p.ast, {"call"}))
        => /\ err = ErrNone
           /\ out = Postfix(p.ast)

C3_Witness ==
    /\ tokens = ExMinMaxNested
    /\ pc = "parsed"
    /\ out = <<NumTok(<<"2">>), NumTok(<<"3">>), NumTok(<<"4">>), NumTok(<<"1">>),
               [FuncTok(FnMax) EXCEPT !.Arity = 3], [FuncTok(FnMin) EXCEPT !.Arity = 2]>>

---------------------------------------------------------------------------
(* The value of a tree in money mode, in exact arithmetic on cents: "val"    *)
(* with the value, or the first thing to go wrong, operands and arguments     *)
(* taken left to right: "over" when a value or an intermediate product is     *)
(* outside int64, "divzero", "arity" for a min or max of fewer than two       *)
(* arguments, "undef" for what money mode does not evaluate.                  *)

MValOf(v) == [k |-> "val", v |-> v]
MOver == [k |-> "over", v |-> 0]
MDivZero == [k |-> "divzero", v |-> 0]
MArityErr == [k |-> "arity", v |-> 0]
MUndef == [k |-> "undef", v |-> 0]

InInt64(x) == MinInt64 <= x /\ x <= MaxInt64

\* whether the exact product x * y is inside int64, decided by division
ProductFits(x, y) ==
    \/ x = 0
    \/ y = 0
    \/ IF (x < 0) = (y < 0) THEN Abs(x) <= MaxInt64 \div Abs(y)
       ELSE Abs(x) <= (-MinInt64) \div Abs(y)

\* v is n/d rounded to the nearest integer, an exact half away from zero
NearestHalfAway(v, n, d) ==
    /\ Abs(v) <= (Abs(n) \div Abs(d)) + 1
    /\ 2 * Abs(v * d - n) <= Abs(d)
    /\ (2 * Abs(v * d - n) = Abs(d) => Abs(v * d) > Abs(n))

Rounded(n, d) ==
    LET q == IF (n < 0) = (d < 0) THEN Abs(n) \div Abs(d) ELSE -(Abs(n) \div Abs(d))
    IN  CHOOSE v \in {q - 1, q, q + 1} : NearestHalfAway(v, n, d)

\* the digits of a literal before and after its point
WholeDigits(txt) == IF "." \in {txt[k] : k \in 1..Len(txt)} THEN SubSeq(txt, 1, IndexOf(txt, ".") - 1) ELSE txt
FracDigits(txt) == IF "." \in {txt[k] : k \in 1..Len(txt)} THEN SubSeq(txt, IndexOf(txt, ".") + 1, Len(txt)) ELSE <<>>

IsDigits(s) == \A k \in 1..Len(s) : s[k] \in Digits

\* a decimal literal without exponent: digits with at most one point
IsPlainLiteral(txt) == IsDigits(WholeDigits(txt)) /\ IsDigits(FracDigits(txt))

RECURSIVE DecimalValue(_)
\* the number a digit string denotes, capped above every int64 whole part
DecimalValue(s) ==
    IF s = <<>> THEN 0
    ELSE LET v == DecimalValue(Front(s)) * 10 + DigitVal(Last(s))
         IN  IF v > MaxInt64 + 1 THEN MaxInt64 + 1 ELSE v

RefLiteral(txt) ==
    IF ~IsPlainLiteral(txt) \/ Len(FracDigits(txt)) > 2 THEN MUndef
    ELSE LET w == DecimalValue(WholeDigits(txt))
             f == FracDigits(txt)
             c == IF Len(f) = 0 THEN 0
                  ELSE IF Len(f) = 1 THEN 10 * DigitVal(f[1])
                  ELSE 10 * DigitVal(f[1]) + DigitVal(f[2])
         IN  IF w < MaxInt64 \div 100 \/ (w = MaxInt64 \div 100 /\ c <= MaxInt64 % 100)
             THEN MValOf(w * 100 + c)
             ELSE MOver

RefMoneyBinary(op, a, b) ==
    CASE op = PLUS -> IF InInt64(a + b) THEN MValOf(a + b) ELSE MOver
      [] op = MINUS -> IF InInt64(a - b) THEN MValOf(a - b) ELSE MOver
      [] op = STAR -> IF ProductFits(a, b) THEN MValOf(Rounded(a * b, 100)) ELSE MOver
      [] op = SLASH ->
            IF ~ProductFits(a, 100) THEN MOver
            ELSE IF b = 0 THEN MDivZero
            ELSE MValOf(Rounded(a * 100, b))
      [] op = PERCENT -> IF ProductFits(a, b) THEN MValOf(Rounded(a * b, 10000)) ELSE MOver
      [] OTHER -> MUndef

LeastInt(vs) == CHOOSE v \in {vs[k] : k \in 1..Len(vs)} : \A k \in 1..Len(vs) : v <= vs[k]
GreatestInt(vs) == CHOOSE v \in {vs[k] : k \in 1..Len(vs)} : \A k \in 1..Len(vs) : v >= vs[k]

RefMoneyCall(name, vs) ==
    IF name \in {FnMin, FnMax}
    THEN IF Len(vs) < 2 THEN MArityErr
         ELSE MValOf(IF name = FnMin THEN LeastInt(vs) ELSE GreatestInt(vs))
    ELSE IF name = FnAbs
    THEN IF Len(vs) # 1 THEN MUndef
         ELSE IF vs[1] = MinInt64 THEN MOver
         ELSE MValOf(Abs(vs[1]))
    ELSE MUndef

RECURSIVE RefMoney(_), RefMoneyArgs(_, _, _)
RefMoney(a) ==
    CASE a.t = "num" -> RefLiteral(a.tok.Text)
      [] a.t = "un" ->
            LET x == RefMoney(a.x)
            IN  IF x.k # "val" THEN x
                ELSE IF a.op = POS THEN x
                ELSE IF x.v = MinInt64 THEN MOver
                ELSE MValOf(-x.v)
      [] a.t = "bin" ->
            LET l == RefMoney(a.l)
                r == RefMoney(a.r)
            IN  IF l.k # "val" THEN l
                ELSE IF r.k # "val" THEN r
                ELSE RefMoneyBinary(a.op, l.v, r.v)
      [] a.t = "call" ->
            LET as == RefMoneyArgs(a.args, 1, <<>>)
            IN  IF as.k # "val" THEN as ELSE RefMoneyCall(a.name, as.v)

RefMoneyArgs(args, k, acc) ==
    IF k > Len(args) THEN MValOf(acc)
    ELSE LET x == RefMoney(args[k])
         IN  IF x.k # "val" THEN x ELSE RefMoneyArgs(args, k + 1, Append(acc, x.v))

\* the money evaluator has run on the postfix form of a well-formed expression
MoneyRan == pc = "done" /\ mode = "money"
FloatRan == pc = "done" /\ mode = "float"

OverflowErrors ==
    {MnAbsOverflow, MnNegOverflow, MnAddOverflow, MnSubOverflow, MnMulOverflow,
     MnRange, MnLiteralOverflow}

---------------------------------------------------------------------------
(* C4..C7: the money evaluator *)

\* C4: in money mode a*b, a/b with b # 0 and a%b, for operands of either sign
\* whose intermediate product (a*b, a*100) is inside int64, succeed with the
\* nearest integer to (a*b)/100, (a*100)/b and (a*b)/10000, an exact half
\* rounded away from zero.
C4_MoneyRounding ==
    LET p == Parse(tokens)
    IN  (MoneyRan /\ p.ok /\ p.ast.t = "bin" /\ p.ast.op \in {STAR, SLASH, PERCENT})
        => LET l == RefMoney(p.ast.l)
               r == RefMoney(p.ast.r)
           IN  (l.k = "val" /\ r.k = "val")
               => CASE p.ast.op = STAR ->
                         ProductFits(l.v, r.v)
                         => result.ok /\ NearestHalfAway(result.val, l.v * r.v, 100)
                    [] p.ast.op = SLASH ->
                         (ProductFits(l.v, 100) /\ r.v # 0)
                         => result.ok /\ NearestHalfAway(result.val, l.v * 100, r.v)
                    [] p.ast.op = PERCENT ->
                         ProductFits(l.v, r.v)
                         => result.ok /\ NearestHalfAway(result.val, l.v * r.v, 10000)

\* -0.5 * 0.01 is -0.5 cents: the half goes away from zero, to -1
C4_Witness ==
    /\ tokens = <<OpTok(MINUS), NumTok(<<"0", ".", "5">>), OpTok(STAR), NumTok(<<"0", ".", "0", "1">>)>>
    /\ MoneyRan
    /\ result.ok
    /\ result.val = -1

\* C5: a money evaluation of a well-formed expression that succeeds returns
\* the exact value, and one in which a literal, a result of + - * / % NEG abs
\* or an intermediate product a*b, a*100 is outside int64 fails with an
\* overflow error; negating or taking abs of the minimum is such a case.
C5_NoWraparound ==
    LET p == Parse(tokens)
    IN  (MoneyRan /\ p.ok)
        => LET ref == RefMoney(p.ast)
           IN  /\ result.ok => (ref.k = "val" /\ result.val = ref.v)
               /\ ref.k = "over" => (~result.ok /\ result.err \in OverflowErrors)

C5_Witness ==
    /\ tokens = <<OpTok(MINUS)>> \o MinExpr
    /\ MoneyRan
    /\ ~result.ok
    /\ result.err = MnNegOverflow

\* a / b with both operands evaluated and b zero cents
DividesByZero(a) ==
    /\ a.t = "bin"
    /\ a.op = SLASH
    /\ RefMoney(a.l).k = "val"
    /\ RefMoney(a.r).k = "val"
    /\ RefMoney(a.r).v = 0

\* C6 as stated: in money mode a / b with b zero cents fails with the
\* division-by-zero error for every a.
C6_AlwaysDivisionByZero ==
    LET p == Parse(tokens)
    IN  (MoneyRan /\ p.ok /\ DividesByZero(p.ast))
        => (~result.ok /\ result.err = MnDivZero)

\* C6: in money mode a / b with b zero cents always fails: with the
\* division-by-zero error when a*100 is inside int64, and with the
\* multiplication overflow error when it is not.
C6_DivisionByZero ==
    LET p == Parse(tokens)
    IN  (MoneyRan /\ p.ok /\ DividesByZero(p.ast))
        => /\ ~result.ok
           /\ result.err = IF ProductFits(RefMoney(p.ast.l).v, 100) THEN MnDivZero
                           ELSE MnMulOverflow

C6_Witness ==
    /\ tokens = <<NumTok(CentsText(MaxInt64 \div 100)), OpTok(SLASH), NumTok(<<"0">>)>>
    /\ MoneyRan
    /\ ~result.ok
    /\ result.err = MnDivZero

\* the number of digits after the point of a literal
Places(txt) == Len(FracDigits(txt))

UnsupportedFunction(t) == t.Typ = TFunc /\ t.Text \notin {FnAbs, FnMin, FnMax}
UnsupportedLiteral(t) ==
    t.Typ = TNumber /\ (ContainsAny(t.Text, {"e", "E"}) \/ Places(t.Text) > 2)
NotInMoney(t) ==
    \/ UnsupportedFunction(t)
    \/ UnsupportedLiteral(t)
    \/ t.Typ = TOp /\ t.Text = CARET
    \/ t.Typ = TNumber /\ t.Text \in {ConstPi, ConstE}

UnsupportedLiteralErrors == {MnNonNumeric, MnExponent, MnPlaces}

\* C7: the money pipeline never succeeds on an input with a function other
\* than abs/min/max, a ^, a named constant, an exponent literal or a literal of
\* more than two decimals: the evaluator stops no later than the first such
\* token of the postfix form, and when it stops there on a function the error
\* is unsupported-function, on an exponent or over-precise literal an
\* unsupported-literal error.
C7_MoneyRejects ==
    (MoneyRan /\ \E k \in 1..Len(tokens) : NotInMoney(tokens[k]))
    => /\ ~result.ok
       /\ \E k \in 1..Len(out) :
            /\ NotInMoney(out[k])
            /\ \A j \in 1..(k - 1) : ~NotInMoney(out[j])
            /\ result.at <= k
            /\ (result.at = k /\ UnsupportedFunction(out[k])) => result.err = MnUnsupportedFunc
            /\ (result.at = k /\ UnsupportedLiteral(out[k]))
               => result.err \in UnsupportedLiteralErrors

C7_Witness ==
    /\ tokens = ExSin1
    /\ MoneyRan
    /\ ~result.ok
    /\ result.err = MnUnsupportedFunc
    /\ result.at = 2

---------------------------------------------------------------------------
(* C8..C10: % and min/max in the two evaluators *)

IsLiteral(a) == a.t = "num" \/ (a.t = "un" /\ a.x.t = "num")

Hundred == Rat(100, 1)

Remainder(a, b) == FSub(a, FMul(b, FFloor(FDiv(a, b))))

\* C9: in float mode a % b is the remainder of a divided by b: 5%2 = 1,
\* 7.5%2 = 1.5, (-2.5)^3 + 10%3 = -14.625.
C9_Remainder ==
    LET p == Parse(tokens)
    IN  /\ (/\ FloatRan
            /\ p.ok
            /\ p.ast.t = "bin"
            /\ p.ast.op = PERCENT
            /\ p.ast.l.t = "num"
            /\ p.ast.r.t = "num"
            /\ IsRat(p.ast.l.tok.Value)
            /\ IsRat(p.ast.r.tok.Value)
            /\ p.ast.r.tok.Value # Zero)
           => (result.ok /\ result.val = Remainder(p.ast.l.tok.Value, p.ast.r.tok.Value))
        /\ (FloatRan /\ tokens = ExCubePercent) => (result.ok /\ result.val = Rat(-14625, 1000))

RECURSIVE CallNames(_)
\* the names of the calls of a tree
CallNames(a) ==
    CASE a.t = "num" -> {}
      [] a.t = "un" -> CallNames(a.x)
      [] a.t = "bin" -> CallNames(a.l) \cup CallNames(a.r)
      [] a.t = "call" -> {a.name} \cup UNION {CallNames(a.args[k]) : k \in 1..Len(a.args)}

\* C10: in both evaluators a well-formed expression whose calls are min and
\* max evaluates with every call of two or more arguments replaced by the
\* least / greatest of its argument values, and fails with the wrong-arity
\* error when the first thing to go wrong is a min or max of fewer than two
\* arguments.
C10_MinMax ==
    LET p == Parse(tokens)
    IN  (pc = "done" /\ p.ok /\ CallNames(p.ast) # {} /\ CallNames(p.ast) \subseteq {FnMin, FnMax})
        => /\ mode = "float"
              => LET ref == RefFloat(p.ast)
                 IN  /\ ref.k = "val" => (result.ok /\ (IsRat(ref.v) => result.val = ref.v))
                     /\ ref.k = "arity" => (~result.ok /\ result.err = EvExpects2Plus)
           /\ mode = "money"
              => LET ref == RefMoney(p.ast)
                 IN  /\ ref.k = "val" => (result.ok /\ result.val = ref.v)
                     /\ ref.k = "arity" => (~result.ok /\ result.err = MnExpects2Plus)

C10_Witness ==
    /\ tokens = ExMinMaxNested
    /\ MoneyRan
    /\ result.ok
    /\ result.val = 200

---------------------------------------------------------------------------
(* C11..C14: toRPN on token sequences that are not expressions *)

\* the number of tokens of type typ among the first k tokens
CountTyp(typ, k) == Cardinality({j \in 1..k : tokens[j].Typ = typ})

\* the token at k is a ")" with no "(" open before it
ClosesNothing(k) ==
    /\ tokens[k].Typ = TRParen
    /\ CountTyp(TRParen, k) > CountTyp(TLParen, k)

\* no ")" closes nothing, yet a "(" is still open at the end
LeftOpen ==
    /\ \A k \in 1..Len(tokens) : ~ClosesNothing(k)
    /\ CountTyp(TLParen, Len(tokens)) > CountTyp(TRParen, Len(tokens))

NoCalls == \A k \in 1..Len(tokens) : tokens[k].Typ \notin {TFunc, TComma}

\* C11: toRPN never succeeds on a token sequence with unbalanced parentheses.
\* It stops with an error no later than the first ")" that closes nothing, and
\* on that token the error is mismatched parentheses; with a "(" left open it
\* stops with an error, which at the final drain is mismatched parentheses;
\* and without function names and commas the error is always mismatched
\* parentheses.
C11_UnbalancedParens ==
    Returned
    => /\ \A k \in 1..Len(tokens) :
            (ClosesNothing(k) /\ \A j \in 1..(k - 1) : ~ClosesNothing(j))
            => /\ err # ErrNone
               /\ i <= k
               /\ i = k => err = ErrParens
               /\ NoCalls => err = ErrParens
       /\ LeftOpen
          => /\ err # ErrNone
             /\ i > Len(tokens) => err = ErrParens
             /\ NoCalls => err = ErrParens

\* (2+3 : the drain finds the "(" and fails
C11_Witness ==
    /\ tokens = <<LParenTok, NumTok(<<"2">>), OpTok(PLUS), NumTok(<<"3">>)>>
    /\ pc = "done"
    /\ i = 5
    /\ err = ErrParens

RECURSIVE OpenParens(_)
\* the indexes of the "(" still open after the first k tokens, outermost first
OpenParens(k) ==
    IF k = 0 THEN <<>>
    ELSE LET s == OpenParens(k - 1)
         IN  IF tokens[k].Typ = TLParen THEN Append(s, k)
             ELSE IF tokens[k].Typ = TRParen /\ Len(s) > 0 THEN Front(s)
             ELSE s

\* the "(" at j is the parenthesis of a call: a function name stands before it
IsCallParen(j) == j > 1 /\ tokens[j - 1].Typ = TFunc

\* the innermost "(" open at the token at k, 0 when there is none
Enclosing(k) == IF OpenParens(k - 1) = <<>> THEN 0 ELSE Last(OpenParens(k - 1))

MisplacedComma(k) ==
    /\ tokens[k].Typ = TComma
    /\ (Enclosing(k) = 0 \/ ~IsCallParen(Enclosing(k)))

\* the commas among the first k tokens whose innermost open "(" is the one at j
DirectCommas(j, k) ==
    Cardinality({m \in (j + 1)..k : tokens[m].Typ = TComma /\ Enclosing(m) = j})

\* C12: a comma whose innermost enclosing open "(" is not the parenthesis of a
\* call (or that has none) makes toRPN fail with the misplaced-comma error: no
\* comma toRPN stops on is anything else, no comma it passes is misplaced, and
\* it never gets past the first misplaced comma.  A comma directly inside a
\* call's parentheses is accepted, and each open parenthesis' counter is the
\* number of commas directly inside it.
C12_MisplacedComma ==
    /\ (pc = "done" /\ err # ErrNone /\ i <= Len(tokens) /\ tokens[i].Typ = TComma)
       => (err = ErrComma /\ MisplacedComma(i))
    /\ (pc = "loop" /\ prev >= 1 /\ tokens[prev].Typ = TComma)
       => (~MisplacedComma(prev) /\ IsCallParen(Enclosing(prev)))
    /\ pc = "loop"
       => argCount = [k \in 1..Len(OpenParens(prev)) |-> DirectCommas(OpenParens(prev)[k], prev)]
    /\ Returned
       => \A k \in 1..Len(tokens) : MisplacedComma(k) => (err # ErrNone /\ i <= k)

\* min((1,2),3): the comma inside the grouping parenthesis is refused
C12_Witness ==
    /\ tokens = <<FuncTok(FnMin), LParenTok, LParenTok, NumTok(<<"1">>), CommaTok,
                  NumTok(<<"2">>), RParenTok, CommaTok, NumTok(<<"3">>), RParenTok>>
    /\ pc = "done"
    /\ i = 5
    /\ err = ErrComma
    /\ argCount = <<0, 0>>

\* an evaluator returned a value
ReturnedValue == pc = "done" /\ mode \in {"float", "money"} /\ result.ok

\* C13: EvalExpression and EvalMoneyExpression return a value only for
\* well-formed infix expressions: whenever either returns a value, the tokens
\* form an expression of the grammar, so "2 3 +" and "2 min(3,)" are errors.
C13_OnlyWellFormed ==
    ReturnedValue => Parse(tokens).ok

---------------------------------------------------------------------------
(* C14: the context stacks of toRPN *)

\* the positions of the left parentheses on the operator stack, bottom first
StackParens ==
    SelectSeq([k \in 1..Len(stack) |-> k], LAMBDA k : stack[k].Typ = TLParen)

\* toRPN is between two tokens, or has returned its output
AfterToken == pc \in {"loop", "parsed"}

\* the next token is a right parenthesis whose left parenthesis is on the stack
ClosingFound ==
    InLoop /\ tokens[i].Typ = TRParen /\ RParenPop(stack, out).found

\* C14: after every token funcParen and argCount have the same length, the
\* number of left parentheses on the operator stack, and every context marked
\* as a call has a function token directly beneath its left parenthesis; so
\* "function call missing name" and the residual-function error of the final
\* drain are never returned, and a right parenthesis that found its left
\* parenthesis never meets an empty context stack.
C14_ContextStacks ==
    /\ AfterToken =>
          /\ Len(funcParen) = Len(StackParens)
          /\ Len(argCount) = Len(StackParens)
          /\ \A k \in 1..Len(funcParen) :
                funcParen[k] =>
                    /\ StackParens[k] > 1
                    /\ stack[StackParens[k] - 1].Typ = TFunc
    /\ ClosingFound => Len(funcParen) > 0
    /\ err \notin {ErrMissingName, ErrFuncNoParens}

\* inside min(1,min(2,3),(4: a call context below a grouping context
C14_Witness ==
    /\ pc = "loop"
    /\ funcParen = <<TRUE, FALSE>>
    /\ argCount = <<2, 0>>
    /\ Len(stack) = 3
    /\ stack[1].Typ = TFunc
    /\ StackParens = <<2, 3>>

=============================================================================
